---- MODULE Spec2Model ----
(***************************************************************************)
(* Notification dispatcher of namaztime (src/server.js, the Firestore and  *)
(* cron variant of lines 158-436): the tokens collection, the hadiths      *)
(* collection, the in-process dedup set, the HTTP handlers, the cron rules *)
(* and the hadith listener, each handler cut at its awaits.  A step of the *)
(* model is one run of the event loop: a handler runs from the settling of *)
(* the promise it awaits to its next await (or to its end), together with  *)
(* every continuation that becomes runnable in the same turn (Promise.all, *)
(* the awaiting endpoint, res.send).                                       *)
(***************************************************************************)
EXTENDS Naturals, FiniteSets, Sequences, TLC

\* ------------------------------------------------------------ bounds
\* Handlers and fan-outs that may be in flight at the same time.
MaxTasks == 2

\* Longest hadith text tried, in UTF-16 code units.
MaxTextLen == 52

\* ------------------------------------------------------- input domains
\* Device tokens and hadith document ids a client may present.  "a-b" and
\* "b-c" contain the separator sendHadithNotification puts into its key.
Tokens == {"a", "a-b"}
HadithIds == {"c", "b-c"}
NoValue == ""

\* The list `valid` of /send-namaz, and the names of the five cron rules.
ValidNamaz == {"Fajr", "Dhuhr", "Asr", "Maghrib", "Isha"}
CronRules == {"Fajr", "Dhuhr", "Asr", "Maghrib", "Isha"}
\* Query parameters tried on GET /send-namaz.
NamazInputs == {"Dhuhr", "Jumma", NoValue}
\* Cron rules fired in the model.
CronInputs == {"Fajr", "Isha"}

\* Bodies tried on POST /toggle-notification: the well-formed ones, one without
\* a token and one whose `enabled` is no boolean.
ToggleBodies ==
    [token : Tokens, isBoolean : {TRUE}, enabled : BOOLEAN]
    \cup {[token |-> NoValue, isBoolean |-> TRUE, enabled |-> TRUE],
          [token |-> "a", isBoolean |-> FALSE, enabled |-> FALSE]}

\* err.code of a rejected admin.messaging().send().
InvalidTokenCodes ==
    {"messaging/invalid-registration-token",
     "messaging/registration-token-not-registered"}
GatewayErrorCodes == InvalidTokenCodes \cup {"messaging/internal-error"}

\* hadithData.text is cut after this many code units.
BodyLimit == 50

\* Hadith texts: every length up to MaxTextLen, made of alternating code units and
\* ending in either a letter or a full stop.
TextOfLength(n, last) ==
    [i \in 1..n |-> IF i = n THEN last ELSE IF i % 2 = 1 THEN "x" ELSE "y"]

TextInputs == {TextOfLength(n, last) : n \in 0..MaxTextLen, last \in {"x", "."}}

\* The text of the hadiths of the specifications that do not vary it.
ShortText == <<"x">>

VARIABLES
    tokens,            \* tokensCollection: token -> "absent" | "on" | "off"
    hadiths,           \* hadithsCollection: id -> createdAt (0: never created)
    texts,             \* id -> the text field of the document (code units)
    removedHadiths,    \* ids whose document has been deleted again
    watched,           \* ids created while the listener was attached
    processedHadiths,  \* the Set of notification keys
    started,           \* the 60 s timer of app.listen has fired
    listenerView,      \* ids in the listener's last snapshot (limit 1)
    tasks,             \* slot -> handler or fan-out in flight
    lastResp,          \* the HTTP response the last step sent (NoResp: none)
    lastDone,          \* the fan-out that returned in the last step (NoDone: none)
    delivered,         \* the <<token, id>> a hadith send has succeeded for
    lastSend,          \* the hadith send that succeeded in the last step
    fired              \* id -> fan-outs the listener started for it (0, 1, 2+)

vars == <<tokens, hadiths, texts, removedHadiths, watched, processedHadiths, started,
          listenerView, tasks, lastResp, lastDone, delivered, lastSend, fired>>

Slots == 1..MaxTasks

\* Saturation of the two history counters.
MaxCount == 2

Bump(n) == IF n < MaxCount THEN n + 1 ELSE n

\* ------------------------------------------------------------- records
NoAttempt == [st |-> "none", gw |-> "none"]

NoTask ==
    [kind |-> "idle", src |-> "none", pc |-> "idle", token |-> NoValue,
     enabled |-> FALSE, arg |-> NoValue,
     att |-> [t \in Tokens |-> NoAttempt], snapshot |-> {}, enabledAtRead |-> {}]

\* nth: 1 for the first successful send of <<token, id>>, 2 for a later one.
\* body: notification.body of the message sent.
NoSend == [token |-> NoValue, id |-> NoValue, nth |-> 0, body |-> <<>>]

NoResp == [kind |-> "none", status |-> 0, storeFailed |-> FALSE]

NoDone ==
    [kind |-> "none", src |-> "none", arg |-> NoValue,
     att |-> [t \in Tokens |-> NoAttempt],
     enabledAtRead |-> {}, storeFailed |-> FALSE, status |-> 0]

Resp(kind, status, storeFailed) ==
    [kind |-> kind, status |-> status, storeFailed |-> storeFailed]

\* ---------------------------------------------------- pure operations
\* Mutant: the query without its where('enabled', '==', true) filter.
QueryAll(store) == {t \in Tokens : store[t] # "absent"}

\* Mutant: the filter inverted, where('enabled', '==', false).
QueryDisabled(store) == {t \in Tokens : store[t] = "off"}

\* tokensCollection.where('enabled', '==', true).get(): the ids of snapshot.docs.
QueryEnabled(store) == {t \in Tokens : store[t] = "on"}

\* doc.exists of tokensCollection.doc(token).get().
DocExists(store, token) == store[token] # "absent"

\* `${token}-${hadithData.id}`
notificationKey(token, id) == token \o "-" \o id

\* Mutant: the text is cut from 50 code units on.
notificationBodyFromLimit(text) ==
    IF Len(text) >= BodyLimit
    THEN SubSeq(text, 1, BodyLimit) \o <<".", ".", ".">>
    ELSE text

\* notification.body: text.length > 50 ? `${text.substring(0, 50)}...` : text
notificationBody(text) ==
    IF Len(text) > BodyLimit
    THEN SubSeq(text, 1, BodyLimit) \o <<".", ".", ".">>
    ELSE text

\* Mutant: only the first of the two codes prunes.
ShouldPruneFirstCodeOnly(code) == code = "messaging/invalid-registration-token"

\* Mutant: every gateway error prunes.
ShouldPruneAnyError(code) == TRUE

\* The test of both catch blocks on err.code: the two codes that prune.
ShouldPrune(code) ==
    \/ code = "messaging/invalid-registration-token"
    \/ code = "messaging/registration-token-not-registered"

\* Mutant: a catch block that sends again after an error it does not prune for.
AfterGatewayErrorRetry(code) == IF ShouldPrune(code) THEN "pruning" ELSE "sending"

\* Both catch blocks: log, then remove the token or give the send up.
AfterGatewayError(code) == IF ShouldPrune(code) THEN "pruning" ELSE "abandoned"

\* The gateway's report, as the Push Gateway contract classifies it.
Classify(code) == IF code \in InvalidTokenCodes THEN "invalid" ELSE "transient"

\* Mutant: removeInvalidToken without its try/catch: a failed delete() rejects the
\* attempt.
PruneFailureRejects == "rejected"

\* removeInvalidToken catches the failure of delete(): the attempt still resolves.
PruneFailure == "pruneFailed"

\* Mutant: /save-token writes { enabled: true } whether the document exists or not.
SaveTokenAlwaysWrites(exists) == TRUE

\* /save-token writes { enabled: true } only when the document does not exist.
SaveTokenWrites(exists) == ~exists

\* Mutant: /send-namaz calls sendNamazNotifications without await (the
\* fire-and-forget loop of the earlier variant).
SendNamazDoesNotAwait == FALSE

\* /send-namaz awaits sendNamazNotifications before res.send.
SendNamazAwaits == TRUE

\* Mutant: /send-namaz rejecting only a missing type.
ValidTypeIfPresent(type) == type # NoValue

\* valid.includes(namazName)
ValidType(type) == type \in ValidNamaz

\* sendHadithNotification up to its first await: the dedup test, else the send.
\* sendNamazNotification sends at once.
AttemptStart(kind, token, id, processed) ==
    IF kind = "hadith" /\ notificationKey(token, id) \in processed
    THEN [st |-> "skipped", gw |-> "none"]
    ELSE [st |-> "sending", gw |-> "none"]

\* Mutant: an attempt for every token, whatever the snapshot holds.
StartAttemptsForAll(kind, id, snapshot, processed) ==
    [t \in Tokens |-> AttemptStart(kind, t, id, processed)]

\* snapshot.docs.map(doc => send...Notification(doc.id, ...))
StartAttempts(kind, id, snapshot, processed) ==
    [t \in Tokens |->
        IF t \in snapshot THEN AttemptStart(kind, t, id, processed) ELSE NoAttempt]

Settled(a) ==
    a.st \in {"none", "skipped", "sent", "abandoned", "pruned", "resaved", "pruneFailed"}

\* History: a fan-out that has pruned `token` sees it registered again.
MarkResaved(task, token) ==
    IF task.att[token].st = "pruned"
    THEN [task EXCEPT !.att[token].st = "resaved"]
    ELSE task

\* Promise.all(promises): fulfilled once all are, rejected with the first rejection.
PromiseAllSettles(att) ==
    \/ \A t \in Tokens : Settled(att[t])
    \/ \E t \in Tokens : att[t].st = "rejected"

\* Mutant: /send-hadith-notification without its test of hadithDoc.exists.
AnyHadithId(id) == TRUE

\* hadithDoc.exists: the document has been created and not deleted.
Present(id) == hadiths[id] > 0 /\ id \notin removedHadiths

\* The hadith document the query orderBy('createdAt', 'desc').limit(1) returns.
TopHadith ==
    {id \in HadithIds :
        /\ Present(id)
        /\ \A o \in HadithIds : Present(o) => hadiths[o] <= hadiths[id]}

Clock ==
    LET used == {hadiths[id] : id \in HadithIds}
    IN  CHOOSE n \in used : \A m \in used : m <= n

Idle(s) == tasks[s].kind = "idle"

\* A new handler or fan-out takes the first free slot.
Free(s) == Idle(s) /\ \A o \in Slots : o < s => ~Idle(o)

\* ------------------------------------------------------------- Init
\* The two collections outlive the process: a start may find any tokens.
Init ==
    /\ tokens \in [Tokens -> {"absent", "on", "off"}]
    /\ hadiths = [id \in HadithIds |-> 0]
    /\ texts = [id \in HadithIds |-> ShortText]
    /\ removedHadiths = {}
    /\ watched = {}
    /\ processedHadiths = {}
    /\ started = FALSE
    /\ listenerView = {}
    /\ tasks = [s \in Slots |-> NoTask]
    /\ lastResp = NoResp
    /\ lastDone = NoDone
    /\ delivered = {}
    /\ lastSend = NoSend
    /\ fired = [id \in HadithIds |-> 0]

\* A start over the collections a previous process left: hadith "c" may exist.
InitStored ==
    /\ tokens \in [Tokens -> {"absent", "on", "off"}]
    /\ hadiths \in {[id \in HadithIds |-> 0],
                    [id \in HadithIds |-> IF id = "c" THEN 1 ELSE 0]}
    /\ texts = [id \in HadithIds |-> ShortText]
    /\ removedHadiths = {}
    /\ watched = {}
    /\ processedHadiths = {}
    /\ started = FALSE
    /\ listenerView = {}
    /\ tasks = [s \in Slots |-> NoTask]
    /\ lastResp = NoResp
    /\ lastDone = NoDone
    /\ delivered = {}
    /\ lastSend = NoSend
    /\ fired = [id \in HadithIds |-> 0]

\* Hadith "c" is in the collection with any of the texts, the tokens are enabled.
InitBody ==
    /\ tokens = [t \in Tokens |-> "on"]
    /\ hadiths = [id \in HadithIds |-> IF id = "c" THEN 1 ELSE 0]
    /\ texts \in [HadithIds -> TextInputs]
    /\ texts["b-c"] = ShortText
    /\ removedHadiths = {}
    /\ watched = {}
    /\ processedHadiths = {}
    /\ started = FALSE
    /\ listenerView = {}
    /\ tasks = [s \in Slots |-> NoTask]
    /\ lastResp = NoResp
    /\ lastDone = NoDone
    /\ delivered = {}
    /\ lastSend = NoSend
    /\ fired = [id \in HadithIds |-> 0]

\* ------------------------------------------------ the end of a fan-out
\* A step that sends no response and ends no fan-out.
Quiet == lastResp' = NoResp /\ lastDone' = NoDone

\* A step in which no hadith send succeeds.
NoDelivery == lastSend' = NoSend /\ UNCHANGED <<processedHadiths, delivered>>

\* sendNamazNotifications / sendHadithNotifications return (the try block ends,
\* returns early, or its catch has logged); an awaiting endpoint then answers 200.
FanOutReturns(s, task, queryFailed) ==
    LET sf == queryFailed \/ \E t \in Tokens : task.att[t].st = "pruneFailed"
        http == task.src = "http"
    IN  /\ tasks' = [tasks EXCEPT ![s] = NoTask]
        /\ lastDone' = [kind |-> task.kind, src |-> task.src, arg |-> task.arg,
                        att |-> task.att,
                        enabledAtRead |-> task.enabledAtRead, storeFailed |-> sf,
                        status |-> IF http THEN 200 ELSE 0]
        /\ lastResp' = IF http THEN Resp(task.kind, 200, sf) ELSE NoResp

\* One attempt has changed: Promise.all settles now or the fan-out keeps waiting.
FanOutStep(s, task) ==
    IF PromiseAllSettles(task.att)
    THEN FanOutReturns(s, task, FALSE)
    ELSE /\ tasks' = [tasks EXCEPT ![s] = task]
         /\ Quiet

Respond(s, kind, status, storeFailed) ==
    /\ tasks' = [tasks EXCEPT ![s] = NoTask]
    /\ lastResp' = Resp(kind, status, storeFailed)
    /\ lastDone' = NoDone

content == <<hadiths, texts, removedHadiths, watched>>
listener == <<started, listenerView, fired>>

\* ----------------------------------------------------- POST /save-token
SaveTokenRequest(s, token) ==
    /\ Free(s)
    /\ IF token = NoValue
       THEN Respond(s, "save", 400, FALSE)
       ELSE /\ tasks' = [tasks EXCEPT ![s] =
                    [NoTask EXCEPT !.kind = "save", !.src = "http", !.pc = "get",
                                   !.token = token]]
            /\ Quiet
    /\ NoDelivery
    /\ UNCHANGED <<tokens, content, listener>>

SaveTokenGet(s, ok) ==
    /\ tasks[s].kind = "save" /\ tasks[s].pc = "get"
    /\ IF ~ok
       THEN Respond(s, "save", 500, TRUE)
       ELSE IF SaveTokenWrites(DocExists(tokens, tasks[s].token))
            THEN /\ tasks' = [tasks EXCEPT ![s].pc = "set"]
                 /\ Quiet
            ELSE Respond(s, "save", 200, FALSE)
    /\ NoDelivery
    /\ UNCHANGED <<tokens, content, listener>>

SaveTokenSet(s, ok) ==
    /\ tasks[s].kind = "save" /\ tasks[s].pc = "set"
    /\ IF ok
       THEN /\ tokens' = [tokens EXCEPT ![tasks[s].token] = "on"]
            /\ tasks' = [o \in Slots |->
                   IF o = s THEN NoTask ELSE MarkResaved(tasks[o], tasks[s].token)]
            /\ lastResp' = Resp("save", 200, FALSE)
            /\ lastDone' = NoDone
       ELSE /\ UNCHANGED tokens
            /\ Respond(s, "save", 500, TRUE)
    /\ NoDelivery
    /\ UNCHANGED <<content, listener>>

\* ------------------------------------------- POST /toggle-notification
ToggleRequest(s, token, isBoolean, enabled) ==
    /\ Free(s)
    /\ IF ~isBoolean \/ token = NoValue
       THEN Respond(s, "toggle", 400, FALSE)
       ELSE /\ tasks' = [tasks EXCEPT ![s] =
                    [NoTask EXCEPT !.kind = "toggle", !.src = "http", !.pc = "update",
                                   !.token = token, !.enabled = enabled]]
            /\ Quiet
    /\ NoDelivery
    /\ UNCHANGED <<tokens, content, listener>>

\* update() rejects when the store fails and when the document does not exist
\* (NOT_FOUND); the handler's catch answers 500 for both.
ToggleUpdate(s, ok) ==
    /\ tasks[s].kind = "toggle" /\ tasks[s].pc = "update"
    /\ IF ok /\ DocExists(tokens, tasks[s].token)
       THEN /\ tokens' = [tokens EXCEPT ![tasks[s].token] =
                              IF tasks[s].enabled THEN "on" ELSE "off"]
            /\ Respond(s, "toggle", 200, FALSE)
       ELSE /\ UNCHANGED tokens
            /\ Respond(s, "toggle", 500, ~ok)
    /\ NoDelivery
    /\ UNCHANGED <<content, listener>>

\* ------------------------------------------------------ GET /send-namaz
SendNamazRequest(s, type) ==
    /\ Free(s)
    /\ IF ~ValidType(type)
       THEN Respond(s, "namaz", 400, FALSE)
       ELSE IF SendNamazAwaits
            THEN /\ tasks' = [tasks EXCEPT ![s] =
                         [NoTask EXCEPT !.kind = "namaz", !.src = "http",
                                        !.pc = "query", !.arg = type]]
                 /\ Quiet
            ELSE /\ tasks' = [tasks EXCEPT ![s] =
                         [NoTask EXCEPT !.kind = "namaz", !.src = "detached",
                                        !.pc = "query", !.arg = type]]
                 /\ lastResp' = Resp("namaz", 200, FALSE)
                 /\ lastDone' = NoDone
    /\ NoDelivery
    /\ UNCHANGED <<tokens, content, listener>>

\* ------------------------------------------- POST /send-hadith-notification
SendHadithRequest(s, hadithId) ==
    /\ Free(s)
    /\ IF hadithId = NoValue
       THEN Respond(s, "hadith", 400, FALSE)
       ELSE /\ tasks' = [tasks EXCEPT ![s] =
                    [NoTask EXCEPT !.kind = "hadith", !.src = "http", !.pc = "get",
                                   !.arg = hadithId]]
            /\ Quiet
    /\ NoDelivery
    /\ UNCHANGED <<tokens, content, listener>>

SendHadithGet(s, ok) ==
    /\ tasks[s].kind = "hadith" /\ tasks[s].pc = "get"
    /\ IF ~ok
       THEN Respond(s, "hadith", 500, TRUE)
       ELSE IF ~Present(tasks[s].arg)
            THEN Respond(s, "hadith", 404, FALSE)
            ELSE /\ tasks' = [tasks EXCEPT ![s].pc = "query"]
                 /\ Quiet
    /\ NoDelivery
    /\ UNCHANGED <<tokens, content, listener>>

\* ------------------------------------------------------- the app.listen timer
\* Mutant: the cron rules and the listener set up in the app.listen callback
\* itself, without the setTimeout.
TriggersSetUpAtListen(timerFired) == TRUE

\* cron.schedule and setupHadithNotifications are called in the callback of
\* setTimeout(..., 60000): no rule and no listener exists before the timer fires.
TriggersSetUp(timerFired) == timerFired

Startup ==
    /\ ~started
    /\ started' = TRUE
    /\ listenerView' = {}
    /\ Quiet
    /\ NoDelivery
    /\ UNCHANGED <<tokens, content, tasks, fired>>

\* cron.schedule(..., () => sendNamazNotifications(name))
CronFire(s, name) ==
    /\ TriggersSetUp(started)
    /\ Free(s)
    /\ tasks' = [tasks EXCEPT ![s] =
           [NoTask EXCEPT !.kind = "namaz", !.src = "cron", !.pc = "query",
                          !.arg = name]]
    /\ Quiet
    /\ NoDelivery
    /\ UNCHANGED <<tokens, content, listener>>

\* ------------------------------------------------------ the hadiths collection
CreateHadith(id) ==
    /\ hadiths[id] = 0
    /\ hadiths' = [hadiths EXCEPT ![id] = Clock + 1]
    /\ watched' = IF started THEN watched \cup {id} ELSE watched
    /\ Quiet
    /\ NoDelivery
    /\ UNCHANGED <<tokens, texts, removedHadiths, listener, tasks>>

DeleteHadith(id) ==
    /\ Present(id)
    /\ removedHadiths' = removedHadiths \cup {id}
    /\ Quiet
    /\ NoDelivery
    /\ UNCHANGED <<tokens, hadiths, texts, watched, listener, tasks>>

\* onSnapshot callback: the query's result changed since the last snapshot; every
\* document that entered it is a change of type 'added'.
ListenerSnapshot ==
    /\ TriggersSetUp(started)
    /\ listenerView # TopHadith
    /\ listenerView' = TopHadith
    /\ LET added == TopHadith \ listenerView
       IN  IF added = {}
           THEN UNCHANGED <<tasks, fired>>
           ELSE \E s \in Slots, id \in added :
                   /\ Free(s)
                   /\ tasks' = [tasks EXCEPT ![s] =
                          [NoTask EXCEPT !.kind = "hadith", !.src = "listener",
                                         !.pc = "query", !.arg = id]]
                   /\ fired' = [fired EXCEPT ![id] = Bump(fired[id])]
    /\ Quiet
    /\ NoDelivery
    /\ UNCHANGED <<tokens, content, started>>

\* ------------------------------- sendNamazNotifications / sendHadithNotifications
\* The store runs the enabled-token query: it fails, or it fixes the snapshot, which
\* is on its way to the process from then on.
FanOutQuery(s, ok) ==
    /\ tasks[s].kind \in {"namaz", "hadith"} /\ tasks[s].pc = "query"
    /\ IF ~ok
       THEN FanOutReturns(s, tasks[s], TRUE)
       ELSE /\ tasks' = [tasks EXCEPT ![s] =
                    [tasks[s] EXCEPT
                        !.pc = "queried",
                        !.snapshot = QueryEnabled(tokens),
                        !.enabledAtRead = {t \in Tokens : tokens[t] = "on"}]]
            /\ Quiet
    /\ NoDelivery
    /\ UNCHANGED <<tokens, content, listener>>

\* The awaited get() is fulfilled with the snapshot: the fan-out returns if it is
\* empty, else every attempt starts in this turn.
FanOutSnapshot(s) ==
    /\ tasks[s].pc = "queried"
    /\ LET task == [tasks[s] EXCEPT
                       !.pc = "sending",
                       !.att = StartAttempts(tasks[s].kind, tasks[s].arg,
                                             tasks[s].snapshot, processedHadiths)]
       IN  IF tasks[s].snapshot = {}
           THEN FanOutReturns(s, task, FALSE)
           ELSE FanOutStep(s, task)
    /\ NoDelivery
    /\ UNCHANGED <<tokens, content, listener>>

\* admin.messaging().send() is fulfilled.
GatewayOk(s, t) ==
    /\ tasks[s].pc = "sending" /\ tasks[s].att[t].st = "sending"
    /\ IF tasks[s].kind = "hadith"
       THEN /\ processedHadiths' =
                  processedHadiths \cup {notificationKey(t, tasks[s].arg)}
            /\ delivered' = delivered \cup {<<t, tasks[s].arg>>}
            /\ lastSend' = [token |-> t, id |-> tasks[s].arg,
                             nth |-> IF <<t, tasks[s].arg>> \in delivered THEN 2 ELSE 1,
                             body |-> notificationBody(texts[tasks[s].arg])]
       ELSE NoDelivery
    /\ FanOutStep(s, [tasks[s] EXCEPT !.att[t] = [st |-> "sent", gw |-> "ok"]])
    /\ UNCHANGED <<tokens, content, listener>>

\* admin.messaging().send() is rejected with err.code = code.
GatewayFails(s, t, code) ==
    /\ tasks[s].pc = "sending" /\ tasks[s].att[t].st = "sending"
    /\ FanOutStep(s, [tasks[s] EXCEPT !.att[t] =
           [st |-> AfterGatewayError(code), gw |-> Classify(code)]])
    /\ NoDelivery
    /\ UNCHANGED <<tokens, content, listener>>

\* removeInvalidToken: tokensCollection.doc(token).delete() settles.
RemoveInvalidToken(s, t, ok) ==
    /\ tasks[s].pc = "sending" /\ tasks[s].att[t].st = "pruning"
    /\ tokens' = IF ok THEN [tokens EXCEPT ![t] = "absent"] ELSE tokens
    /\ FanOutStep(s, [tasks[s] EXCEPT !.att[t].st =
                          IF ok THEN "pruned" ELSE PruneFailure])
    /\ NoDelivery
    /\ UNCHANGED <<content, listener>>

\* ------------------------------------------------------------- Next
SaveToken ==
    \/ \E s \in Slots, token \in Tokens \cup {NoValue} : SaveTokenRequest(s, token)
    \/ \E s \in Slots, ok \in BOOLEAN : SaveTokenGet(s, ok)
    \/ \E s \in Slots, ok \in BOOLEAN : SaveTokenSet(s, ok)

ToggleNotification ==
    \/ \E s \in Slots, body \in ToggleBodies :
           ToggleRequest(s, body.token, body.isBoolean, body.enabled)
    \/ \E s \in Slots, ok \in BOOLEAN : ToggleUpdate(s, ok)

SendNamaz == \E s \in Slots, type \in NamazInputs : SendNamazRequest(s, type)

SendHadithNotification ==
    \/ \E s \in Slots, id \in HadithIds \cup {NoValue} : SendHadithRequest(s, id)
    \/ \E s \in Slots, ok \in BOOLEAN : SendHadithGet(s, ok)

Cron == \E s \in Slots, name \in CronInputs : CronFire(s, name)

ContentWriter ==
    \/ \E id \in HadithIds : CreateHadith(id)
    \/ \E id \in HadithIds : DeleteHadith(id)

FanOut ==
    \/ \E s \in Slots, ok \in BOOLEAN : FanOutQuery(s, ok)
    \/ \E s \in Slots : FanOutSnapshot(s)
    \/ \E s \in Slots, t \in Tokens : GatewayOk(s, t)
    \/ \E s \in Slots, t \in Tokens, code \in GatewayErrorCodes : GatewayFails(s, t, code)
    \/ \E s \in Slots, t \in Tokens, ok \in BOOLEAN : RemoveInvalidToken(s, t, ok)

\* The token endpoints and the scheduled-reminder fan-out a request starts.
Next == SaveToken \/ ToggleNotification \/ SendNamaz \/ FanOut

Spec == Init /\ [][Next]_vars

\* Every endpoint and the cron rules, over a hadiths collection the previous
\* process may have left a document in.
NextAll ==
    \/ SaveToken \/ ToggleNotification \/ SendNamaz \/ SendHadithNotification
    \/ Startup \/ Cron \/ FanOut

SpecAll == InitStored /\ [][NextAll]_vars

\* The hadith listener, the writer of the hadiths collection, and the fan-outs
\* the listener starts.
NextListener == Startup \/ ContentWriter \/ ListenerSnapshot \/ FanOut

SpecListener == Init /\ [][NextListener]_vars

\* The listener of a process started over the hadiths collection a previous process
\* left: the dedup set is empty, hadith "c" may already be the most recent record.
SpecRestart == InitStored /\ [][NextListener]_vars

\* The start of the process over a collection of enabled tokens: the timer, both
\* trigger sources with a writer that creates hadith "c", and the manual scheduled
\* reminder.
InitStartup == Init /\ tokens = [t \in Tokens |-> "on"]

NextStartup ==
    \/ Startup \/ Cron \/ ListenerSnapshot \/ SendNamaz \/ FanOut
    \/ CreateHadith("c")

SpecStartup == InitStartup /\ [][NextStartup]_vars

\* The manual hadith alert over every text.
NextBody == SendHadithNotification \/ FanOut

SpecBody == InitBody /\ [][NextBody]_vars

\* The steps of the fan-out in slot s.
FanOutOf(s) ==
    \/ \E ok \in BOOLEAN : FanOutQuery(s, ok)
    \/ FanOutSnapshot(s)
    \/ \E t \in Tokens : GatewayOk(s, t)
    \/ \E t \in Tokens, code \in GatewayErrorCodes : GatewayFails(s, t, code)
    \/ \E t \in Tokens, ok \in BOOLEAN : RemoveInvalidToken(s, t, ok)

\* The store and the gateway settle every call they were sent: a fan-out that can
\* take a step eventually takes one.
LiveSpec == Init /\ [][Next]_vars /\ \A s \in Slots : WF_vars(FanOutOf(s))

TypeOK ==
    /\ tokens \in [Tokens -> {"absent", "on", "off"}]
    /\ started \in BOOLEAN
    /\ \A s \in Slots : tasks[s].kind \in {"idle", "save", "toggle", "namaz", "hadith"}

\* ------------------------------------------------------------- claims
\* The gateway has been invoked for this attempt.
Invoked(a) == a.st \notin {"none", "skipped"}

\* C1: for every (token, content) pair at most one gateway send succeeds in a
\* process lifetime: every successful hadith send is the first one of its pair,
\* also when two fan-outs for the same content overlap.
C1_AtMostOneSendPerPair == lastSend.nth <= 1

\* C2: a fan-out invokes the gateway only for tokens whose enabled flag was true
\* in the tokens collection when the fan-out read the enabled set, in flight and
\* when it returns.
C2_OnlyEnabledAtRead ==
    /\ \A s \in Slots, t \in Tokens :
           Invoked(tasks[s].att[t]) => t \in tasks[s].enabledAtRead
    /\ \A t \in Tokens : Invoked(lastDone.att[t]) => t \in lastDone.enabledAtRead

\* A fan-out has returned after a successful send to "a" while "a-b" was and is
\* disabled and got no attempt.
C2_Witness ==
    /\ lastDone.enabledAtRead = {"a"}
    /\ lastDone.att["a"].gw = "ok"
    /\ lastDone.att["a-b"] = NoAttempt
    /\ tokens["a-b"] = "off"

\* C3 as claimed: once the gateway has reported InvalidToken for a token during a
\* fan-out, the tokens collection does not contain it when the fan-out returns.
C3_AbsentAfterInvalidToken ==
    \A t \in Tokens : lastDone.att[t].gw = "invalid" => tokens[t] = "absent"

\* C3 amended: the fan-out has issued the remove and waited for it; when it returns
\* the token is absent unless the remove failed or /save-token registered the
\* token again after the remove.
C3_RemovedUnlessFailedOrResaved ==
    \A t \in Tokens :
        lastDone.att[t].gw = "invalid" =>
            \/ lastDone.att[t].st = "pruned" /\ tokens[t] = "absent"
            \/ lastDone.att[t].st = "pruneFailed"
            \/ lastDone.att[t].st = "resaved"

\* A fan-out returns having pruned "a" after InvalidToken and sent to "a-b".
C3_Witness ==
    /\ lastDone.att["a"].gw = "invalid"
    /\ lastDone.att["a"].st = "pruned"
    /\ tokens["a"] = "absent"
    /\ lastDone.att["a-b"].gw = "ok"

\* C4: /toggle-notification with a well-formed body for a token that is not in the
\* tokens collection answers 404 and leaves the collection unchanged (the store
\* itself not failing).
C4_ToggleUnknownIsNotFound ==
    [][\A s \in Slots :
          (/\ tasks[s].kind = "toggle"
           /\ tasks'[s].kind = "idle"
           /\ ~DocExists(tokens, tasks[s].token)
           /\ ~lastResp'.storeFailed)
          => (lastResp'.status = 404 /\ tokens' = tokens)]_vars

\* C5: the step of /save-token that finds its token in the tokens collection ends
\* the request without any write: no flag and no other record changes.
C5_SaveExistingIsNoOp ==
    [][\A s \in Slots :
          (/\ tasks[s].kind = "save" /\ tasks[s].pc = "get"
           /\ tasks'[s] # tasks[s]
           /\ DocExists(tokens, tasks[s].token))
          => (tokens' = tokens /\ tasks'[s].kind = "idle")]_vars

\* /save-token has just answered 200 and every token is still disabled: the request
\* was for a registered, disabled token and wrote nothing.
C5_Witness ==
    /\ lastResp = Resp("save", 200, FALSE)
    /\ \A t \in Tokens : tokens[t] = "off"

InFanOut(s) == tasks[s].pc \in {"query", "queried", "sending"}

\* C6: a fan-out returns only when every attempt of its snapshot has settled, every
\* token of the snapshot has had its attempt whatever happened to the others, it
\* returns without an error, and every fan-out that has started returns.
C6_FanOutCompletes ==
    /\ [](lastDone.kind # "none" =>
            /\ \A t \in Tokens : Settled(lastDone.att[t])
            /\ \A t \in lastDone.enabledAtRead : lastDone.att[t].st # "none"
            /\ lastDone.status \in {0, 200})
    /\ \A s \in Slots : InFanOut(s) ~> ~InFanOut(s)

\* A fan-out has returned after the prune of "a" failed and the send to "a-b"
\* succeeded.
C6_Witness ==
    /\ lastDone.att["a"].st = "pruneFailed"
    /\ lastDone.att["a-b"].gw = "ok"

\* C7: the listener starts the content fan-out exactly once for each record created
\* while it is attached: never twice, and not zero times once it has caught up with
\* the collection and the record is still there.
C7_ExactlyOncePerRecord ==
    /\ \A id \in watched : fired[id] <= 1
    /\ (started /\ listenerView = TopHadith) =>
           \A id \in watched : Present(id) => fired[id] >= 1

\* C8: a response sent after a store read or write of the request failed is a 5xx,
\* and a fan-out started by cron or by the listener answers nobody.
C8_StoreFailureAnswers5xx ==
    /\ lastResp.storeFailed => lastResp.status >= 500
    /\ lastDone.src \in {"cron", "listener"} => lastResp = NoResp

\* C9: the 200 of /send-namaz is sent in the step in which its fan-out returns,
\* every attempt settled, and the fan-out of a valid request is answered 200.
C9_RespondsAfterFanOut ==
    /\ (lastResp.kind = "namaz" /\ lastResp.status = 200) =>
           /\ lastDone.kind = "namaz" /\ lastDone.src = "http"
           /\ \A t \in Tokens : Settled(lastDone.att[t])
    /\ (lastDone.kind = "namaz" /\ lastDone.src = "http") => lastResp.status = 200

\* /send-namaz answers 200 after a fan-out that pruned "a" and abandoned "a-b".
C9_Witness ==
    /\ lastResp = Resp("namaz", 200, FALSE)
    /\ lastDone.att["a"].st = "pruned"
    /\ lastDone.att["a-b"].gw = "transient"

\* C10: a fan-out that read an empty enabled set returns with no gateway attempt and
\* no prune; an endpoint answers 200, a background trigger answers nobody.
C10_EmptyIsNoOp ==
    (lastDone.kind # "none" /\ lastDone.enabledAtRead = {}) =>
        /\ \A t \in Tokens : lastDone.att[t] = NoAttempt
        /\ lastDone.src = "http" => lastResp.status = 200
        /\ lastDone.src # "http" => lastResp = NoResp

\* /send-hadith-notification answers 200 after its fan-out read an empty enabled set
\* from a healthy store holding a disabled token.
C10_Witness ==
    /\ lastDone.kind = "hadith" /\ lastDone.src = "http"
    /\ lastDone.enabledAtRead = {} /\ ~lastDone.storeFailed
    /\ tokens["a"] = "off"
    /\ lastResp = Resp("hadith", 200, FALSE)

\* C11: /send-hadith-notification answers 400 to a request without hadithId and 404
\* to one whose hadithId names no document (the store not failing), and neither
\* starts a fan-out: the request ends without a token query, a gateway call or a
\* change of the dedup set, and a request that goes on carries an id.
C11_BadIdStartsNoFanOut ==
    [][\A s \in Slots :
          /\ (lastResp'.kind = "hadith" /\ lastResp'.status = 400) =>
                 UNCHANGED <<tokens, tasks, processedHadiths, delivered>>
          /\ (tasks'[s].kind = "hadith" /\ tasks'[s].src = "http") =>
                 tasks'[s].arg # NoValue
          /\ (/\ tasks[s].kind = "hadith" /\ tasks[s].pc = "get"
              /\ tasks'[s] # tasks[s]
              /\ (hadiths[tasks[s].arg] = 0 \/ tasks[s].arg \in removedHadiths))
             => /\ tasks' = [tasks EXCEPT ![s] = NoTask]
                /\ lastResp'.kind = "hadith"
                /\ IF lastResp'.storeFailed
                   THEN lastResp'.status = 500
                   ELSE lastResp'.status = 404
                /\ lastDone' = NoDone
                /\ UNCHANGED <<tokens, processedHadiths, delivered>>]_vars

\* /send-hadith-notification has just answered 404 while a token is enabled and no
\* handler or fan-out is in flight.
C11_Witness ==
    /\ lastResp = Resp("hadith", 404, FALSE)
    /\ tokens["a"] = "on"
    /\ \A s \in Slots : Idle(s)

C13_BodyTruncatedAtFifty ==
    lastSend.nth > 0 =>
        LET text == texts[lastSend.id]
            body == lastSend.body
        IN  IF Len(text) <= 50
            THEN body = text
            ELSE /\ Len(body) = 53
                 /\ \A i \in 1..50 : body[i] = text[i]
                 /\ \A i \in 51..53 : body[i] = "."

\* An alert for a text of 51 code units has been sent: its body has 53 code units
\* and the last code unit of the text is not in it.
C13_Witness ==
    /\ lastSend.nth > 0
    /\ Len(texts[lastSend.id]) = 51
    /\ texts[lastSend.id][51] = "x"
    /\ Len(lastSend.body) = 53

\* C14: until the timer set in the app.listen callback has fired no fan-out started
\* by a cron rule or by the hadith listener is in flight or has returned, and the
\* listener has started none.  (That the endpoints serve before it is C14_Witness.)
C14_NoTriggerBeforeStartupDelay ==
    ~started =>
        /\ \A s \in Slots : tasks[s].src \notin {"cron", "listener"}
        /\ lastDone.src \notin {"cron", "listener"}
        /\ \A id \in HadithIds : fired[id] = 0

\* Before the timer has fired /send-namaz answers 200 after a fan-out that sent to
\* "a", while a hadith created in the meantime waits unnoticed.
C14_Witness ==
    /\ ~started
    /\ lastResp = Resp("namaz", 200, FALSE)
    /\ lastDone.src = "http" /\ lastDone.att["a"].gw = "ok"
    /\ Present("c")

\* C15: within a fan-out the gateway is invoked at most once for a token: an attempt
\* waits for the gateway only before the gateway has answered it, and it starts
\* waiting from the not-yet-started state only; after a failure it does not wait
\* again.
C15_NoRetryWithinFanOut ==
    [][\A s \in Slots, t \in Tokens :
          tasks'[s].att[t].st = "sending" =>
              /\ tasks'[s].att[t].gw = "none"
              /\ tasks[s].att[t].st \in {"none", "sending"}]_vars

\* A fan-out has returned after a Transient failure for "a", given up, and an
\* InvalidToken failure for "a-b", pruned.
C15_Witness ==
    /\ lastDone.att["a"] = [st |-> "abandoned", gw |-> "transient"]
    /\ lastDone.att["a-b"] = [st |-> "pruned", gw |-> "invalid"]

\* C16: a token's document leaves the tokens collection only in a step of a fan-out
\* whose send to that very token the gateway rejected as InvalidToken and whose
\* remove for it was pending; no other step and no other token's failure deletes it.
C16_DeletedOnlyAfterInvalidToken ==
    [][\A t \in Tokens :
          (tokens[t] # "absent" /\ tokens'[t] = "absent") =>
              \E s \in Slots :
                  /\ tasks[s].att[t] = [st |-> "pruning", gw |-> "invalid"]
                  /\ tasks'[s].att[t].st # "pruning"]_vars

\* A hadith fan-out has returned having pruned "a-b" after InvalidToken while "a",
\* sent successfully, is still registered and enabled.
C16_Witness ==
    /\ lastDone.kind = "hadith"
    /\ lastDone.att["a-b"] = [st |-> "pruned", gw |-> "invalid"]
    /\ tokens["a-b"] = "absent"
    /\ lastDone.att["a"].gw = "ok"
    /\ tokens["a"] = "on"

\* C17: the dedup set holds the key of a (token, hadith) pair, the hadith being in
\* the collection's history, only if a gateway send of that hadith to that token has
\* succeeded.
C17_KeyOnlyAfterSuccess ==
    \A t \in Tokens, id \in HadithIds :
        (hadiths[id] > 0 /\ notificationKey(t, id) \in processedHadiths) =>
            <<t, id>> \in delivered

\* C18: a token's document changes only in three ways: it is deleted; it is created,
\* enabled, by the /save-token request for it that answers 200; or, existing, its
\* flag is set to the value a /toggle-notification request for it asked for, in the
\* step that answers that request 200.  No step of a fan-out is among the last two.
C18_FlagChangesOnlyByToggle ==
    [][\A t \in Tokens :
          tokens'[t] # tokens[t] =>
              \/ tokens'[t] = "absent"
              \/ /\ tokens[t] = "absent" /\ tokens'[t] = "on"
                 /\ lastResp' = Resp("save", 200, FALSE)
                 /\ \E s \in Slots :
                        /\ tasks[s].kind = "save" /\ tasks[s].token = t
                        /\ tasks'[s] = NoTask
              \/ /\ tokens[t] # "absent"
                 /\ lastResp' = Resp("toggle", 200, FALSE)
                 /\ \E s \in Slots :
                        /\ tasks[s].kind = "toggle" /\ tasks[s].token = t
                        /\ tasks'[s] = NoTask
                        /\ tokens'[t] = IF tasks[s].enabled THEN "on" ELSE "off"]_vars

\* The step invokes the gateway for token t in the fan-out of slot s.
GatewayInvoked(s, t) ==
    tasks[s].att[t].st = "none" /\ tasks'[s].att[t].st = "sending"

\* C19 as claimed: while a token is disabled (a toggle to false has completed and
\* nothing has enabled the token since) no fan-out invokes the gateway for it, not
\* even one that read its snapshot before the toggle completed.
C19_NoSendWhileDisabled ==
    [][\A s \in Slots, t \in Tokens :
          GatewayInvoked(s, t) => tokens[t] # "off"]_vars

\* C19 amended: the store puts no disabled token into the snapshot of a query it
\* runs, the snapshot does not change on its way, and a fan-out invokes the gateway
\* only when its snapshot arrives and only for the tokens in it.  A fan-out whose
\* query ran before the toggle completed may thus still send once to the token.
C19_NoSendUnlessReadBeforeToggle ==
    [][\A s \in Slots, t \in Tokens :
          /\ (tasks[s].pc = "query" /\ tasks'[s].pc = "queried" /\ tokens[t] = "off")
                 => t \notin tasks'[s].snapshot
          /\ (tasks[s].pc = "queried" /\ tasks'[s].pc = "queried")
                 => tasks'[s].snapshot = tasks[s].snapshot
          /\ GatewayInvoked(s, t)
                 => (tasks[s].pc = "queried" /\ t \in tasks[s].snapshot)]_vars

\* The toggle of "a" to false has just answered 200 while a fan-out whose snapshot,
\* read before, holds "a" has not yet received it.
C19_Witness ==
    /\ lastResp = Resp("toggle", 200, FALSE)
    /\ tokens["a"] = "off"
    /\ \E s \in Slots : tasks[s].pc = "queried" /\ "a" \in tasks[s].snapshot

\* C20: distinct (token, hadith) pairs have distinct keys, so a fan-out skips a token
\* as already delivered only if a send of that very hadith to that very token has
\* succeeded before, in flight and when the fan-out returns.
C20_SkippedOnlyIfDelivered ==
    /\ \A s \in Slots, t \in Tokens :
           tasks[s].att[t].st = "skipped" => <<t, tasks[s].arg>> \in delivered
    /\ \A t \in Tokens :
           lastDone.att[t].st = "skipped" => <<t, lastDone.arg>> \in delivered

\* C21: a token that is registered and disabled stays so until the step in which a
\* /toggle-notification request for it that asked for true answers 200: no
\* /save-token and no fan-out enables or removes it.
C21_DisabledUntilToggledOn ==
    [][\A t \in Tokens :
          (tokens[t] = "off" /\ tokens'[t] # "off") =>
              /\ tokens'[t] = "on"
              /\ lastResp' = Resp("toggle", 200, FALSE)
              /\ \E s \in Slots :
                     /\ tasks[s].kind = "toggle" /\ tasks[s].token = t
                     /\ tasks[s].enabled
                     /\ tasks'[s] = NoTask]_vars

\* C22: the listener starts a fan-out only for records created while it is
\* attached: none for a record that was in the collection, as its most recent one,
\* before the listener was attached, at a first start or after a restart.
C22_OnlyNewRecordsFire ==
    /\ \A id \in HadithIds : fired[id] > 0 => id \in watched
    /\ \A s \in Slots : tasks[s].src = "listener" => tasks[s].arg \in watched

====
